---- MODULE Spec2Model ----
(***************************************************************************)
(* Value-to-music mapping engine of math_melody_generator:                 *)
(*   scales.py          SCALES, quantize_to_scale                          *)
(*   midi_generator.py  _scale_values_to_range, _fit_to_range,             *)
(*                      _build_diatonic_chord_notes, function_to_midi      *)
(*   main.py            SafeMathEvaluator,                                 *)
(*                      generate_midi_from_function_string                 *)
(*   GUI.py             MelodyGeneratorGUI: generate_midi, play_midi,      *)
(*                      stop_midi, save_midi                               *)
(*                                                                         *)
(* Pitches are integers (MIDI note numbers).  Times and durations are      *)
(* counted in twentieths of a beat (0.5 beat = 10, 0.1 beat = 2), swing in *)
(* tenths (1.0 = 10).  A float that is not an integer (a scaled sample,    *)
(* before rounding) is the exact fraction <<num, den>> with den > 0.       *)
(***************************************************************************)
EXTENDS Integers, Sequences, FiniteSets

VARIABLES
    \* arguments of the function under study
    note, root, scale, chord_mode, min_note, max_note, function_values,
    \* the pure functions: the values returned so far, in call order
    ret,
    \* function_to_midi: remaining parameters
    velocity, note_duration, transpose, microtonal, bend_range_semitones,
    reset_bend_after_note, rhythm_pattern, swing, humanize_timing,
    humanize_velocity,
    \* function_to_midi: locals and the MIDIFile's event list
    pc, i, current_time, midi_notes, midi,
    \* main.py: the expression, the point of one evaluation, the sampling
    \* interval and count, the samples, the exception that ended the request
    \* and the events written to the output file
    function_str, x_val, x_range, num_notes, y_vals, raised, output_file,
    \* GUI.py: the path of the generated file, the state of the Play, Stop
    \* and Save buttons, the status bar, the mixer, the clock, the files on
    \* disk, the handler run last and the exception that left a handler
    temp_midi_path, controls_enabled, status, busy, clock, files,
    last_action, callback_raised

argVars == <<note, root, scale, chord_mode, min_note, max_note, function_values>>
callVars == <<ret>>
paramVars == <<velocity, note_duration, transpose, microtonal,
               reset_bend_after_note, rhythm_pattern, swing, humanize_timing,
               humanize_velocity>>
loopVars == <<pc, i, current_time, midi_notes, midi, bend_range_semitones>>
genVars == <<function_str, x_val, x_range, num_notes, y_vals, raised,
             output_file>>
guiVars == <<temp_midi_path, controls_enabled, status, busy, clock, files,
             last_action, callback_raised>>
vars == <<argVars, callVars, paramVars, loopVars, genVars, guiVars>>

----------------------------------------------------------------------------
(* Bounds of the model *)

\* notes are drawn from -NoteMargin .. MidiMax + NoteMargin
NoteMargin == 14
\* roots are drawn from MiddleC - RootSpread .. MiddleC + RootSpread
RootSpread == 6
\* register bounds of the range functions are drawn from
\* MiddleC - RegisterSpread .. MiddleC + RegisterSpread
RegisterSpread == 12
\* samples of the range mapping: at most MaxMapSamples values, each in
\* -MaxSample .. MaxSample, mapped onto bounds drawn from
\* MiddleC - MapSpread .. MiddleC + MapSpread
MapSpread == 4
MaxMapSamples == 3
MaxSample == 2
\* function_to_midi, timing: at most MaxSteps samples
MaxSteps == 5
\* function_to_midi, harmony: at most MaxSamples samples, and at most
\* MaxJitterSteps when timing or velocity is humanized
MaxSamples == 8
MaxJitterSteps == 2
\* function_to_midi, register: at most MaxPitchSteps samples
MaxPitchSteps == 3
\* eval_expression: x is drawn from -MaxX .. MaxX
MaxX == 2
\* generate_midi_from_function_string: num_notes is drawn from 1 .. MaxNotes
MaxNotes == 3
\* GUI: int(time.time()) is drawn from 0 .. MaxClock
MaxClock == 2
\* function_to_midi, velocity: at most MaxVelocitySteps samples
MaxVelocitySteps == 3

(* Program constants *)
MidiMax == 127
MiddleC == 60
Octave == 12

Notes == (0 - NoteMargin) .. (MidiMax + NoteMargin)
Roots == (MiddleC - RootSpread) .. (MiddleC + RootSpread)
Registers == (MiddleC - RegisterSpread) .. (MiddleC + RegisterSpread)
MapRegisters == (MiddleC - MapSpread) .. (MiddleC + MapSpread)
SampleValues == (0 - MaxSample) .. MaxSample
SampleSeqs == UNION {[1 .. n -> SampleValues] : n \in 0 .. MaxMapSamples}

----------------------------------------------------------------------------
(* scales.py *)

SCALES ==
    [chromatic        |-> <<0, 1, 2, 3, 4, 5, 6, 7, 8, 9, 10, 11>>,
     major            |-> <<0, 2, 4, 5, 7, 9, 11>>,
     minor            |-> <<0, 2, 3, 5, 7, 8, 10>>,
     pentatonic_major |-> <<0, 2, 4, 7, 9>>,
     pentatonic_minor |-> <<0, 3, 5, 7, 10>>,
     dorian           |-> <<0, 2, 3, 5, 7, 9, 10>>,
     phrygian         |-> <<0, 1, 3, 5, 7, 8, 10>>,
     lydian           |-> <<0, 2, 4, 6, 7, 9, 11>>,
     mixolydian       |-> <<0, 2, 4, 5, 7, 9, 10>>,
     locrian          |-> <<0, 1, 3, 5, 6, 8, 10>>,
     blues            |-> <<0, 3, 5, 6, 7, 10>>,
     harmonic_minor   |-> <<0, 2, 3, 5, 7, 8, 11>>,
     melodic_minor    |-> <<0, 2, 3, 5, 7, 9, 11>>]

ScaleNames == DOMAIN SCALES
\* names that are not keys of the table
UnknownScaleNames == {"whole_tone", ""}

Abs(x) == IF x < 0 THEN 0 - x ELSE x
Min2(a, b) == IF a < b THEN a ELSE b
Max2(a, b) == IF a > b THEN a ELSE b

\* the elements of a sequence
Range(s) == {s[k] : k \in DOMAIN s}

\* Python's min(seq, key = lambda x: abs(x - target)): the first element of
\* the least distance
Closest(intervals, target) ==
    LET d(k) == Abs(intervals[k] - target)
        best == CHOOSE k \in DOMAIN intervals :
                    /\ \A j \in DOMAIN intervals : d(k) <= d(j)
                    /\ \A j \in DOMAIN intervals : j < k => d(j) > d(k)
    IN  intervals[best]

\* a plausible slip: the semitone is taken from the note alone, the root is
\* not subtracted
quantize_semitone_without_root(n, r, s) ==
    IF s \notin DOMAIN SCALES THEN n
    ELSE LET octave == (n - r) \div Octave
             semitone == n % Octave
         IN  r + octave * Octave + Closest(SCALES[s], semitone)

\* a plausible slip: an unknown name falls back to a default scale
quantize_default_major(n, r, s) ==
    LET scale_intervals == IF s \in DOMAIN SCALES THEN SCALES[s] ELSE SCALES["major"]
        octave == (n - r) \div Octave
        semitone == (n - r) % Octave
    IN  r + octave * Octave + Closest(scale_intervals, semitone)

quantize_to_scale(n, r, s) ==
    IF s \notin DOMAIN SCALES THEN n
    ELSE LET scale_intervals == SCALES[s]
             octave == (n - r) \div Octave
             semitone == (n - r) % Octave
             closest == Closest(scale_intervals, semitone)
         IN  r + octave * Octave + closest

----------------------------------------------------------------------------
(* midi_generator.py: the range functions *)

\* a fraction <<num, den>>, den > 0
Frac(num, den) == <<num, den>>
FracLeq(a, b) == a[1] * b[2] <= b[1] * a[2]
FracEq(a, b) == a[1] * b[2] = b[1] * a[2]

RECURSIVE SeqMin(_)
SeqMin(s) == IF Len(s) = 1 THEN s[1] ELSE Min2(s[1], SeqMin(Tail(s)))
RECURSIVE SeqMax(_)
SeqMax(s) == IF Len(s) = 1 THEN s[1] ELSE Max2(s[1], SeqMax(Tail(s)))

\* a plausible slip: the sample is not taken relative to the least sample
scale_values_without_offset(values, lo, hi) ==
    LET min_n == IF lo > hi THEN hi ELSE lo
        max_n == IF lo > hi THEN lo ELSE hi
    IN  IF values = <<>> THEN <<>>
        ELSE LET min_val == SeqMin(values)
                 max_val == SeqMax(values)
                 range_val == max_val - min_val
                 span == max_n - min_n
             IN  IF range_val = 0
                 THEN [k \in DOMAIN values |-> Frac(min_n + max_n, 2)]
                 ELSE [k \in DOMAIN values |->
                          Frac(min_n * range_val + values[k] * span, range_val)]

\* min_note + ((val - min_val) / range_val) * span, as an exact fraction
_scale_values_to_range(values, lo, hi) ==
    LET min_n == IF lo > hi THEN hi ELSE lo
        max_n == IF lo > hi THEN lo ELSE hi
    IN  IF values = <<>> THEN <<>>
        ELSE LET min_val == SeqMin(values)
                 max_val == SeqMax(values)
                 range_val == max_val - min_val
                 span == max_n - min_n
             IN  IF range_val = 0
                 THEN [k \in DOMAIN values |-> Frac(min_n + max_n, 2)]
                 ELSE [k \in DOMAIN values |->
                          Frac(min_n * range_val + (values[k] - min_val) * span,
                               range_val)]

\* while note < min_note: note += 12
RECURSIVE WrapUp(_, _)
WrapUp(n, lo) == IF n < lo THEN WrapUp(n + Octave, lo) ELSE n
\* while note > max_note: note -= 12
RECURSIVE WrapDown(_, _)
WrapDown(n, hi) == IF n > hi THEN WrapDown(n - Octave, hi) ELSE n

\* a plausible slip: the final clamp is left out
fit_to_range_without_clamp(n, lo, hi) ==
    LET min_n == IF lo > hi THEN hi ELSE lo
        max_n == IF lo > hi THEN lo ELSE hi
    IN  WrapDown(WrapUp(n, min_n), max_n)

\* a plausible slip: the note is clamped, never transposed by octaves
fit_to_range_clamp_only(n, lo, hi) ==
    LET min_n == IF lo > hi THEN hi ELSE lo
        max_n == IF lo > hi THEN lo ELSE hi
    IN  Max2(min_n, Min2(max_n, n))

_fit_to_range(n, lo, hi) ==
    LET min_n == IF lo > hi THEN hi ELSE lo
        max_n == IF lo > hi THEN lo ELSE hi
        wrapped == WrapDown(WrapUp(n, min_n), max_n)
    IN  Max2(min_n, Min2(max_n, wrapped))

----------------------------------------------------------------------------
(* midi_generator.py: the chord builder *)

ChordModes == {"none", "power", "triad", "seventh"}

\* list.index: the 0-based position of the first occurrence
IndexOf(intervals, x) ==
    (CHOOSE k \in DOMAIN intervals :
        intervals[k] = x /\ \A j \in DOMAIN intervals : j < k => intervals[j] # x) - 1

\* min(range(len(intervals)), key = lambda j: abs(intervals[j] - target))
ClosestIndex(intervals, target) ==
    LET d(k) == Abs(intervals[k] - target)
    IN  (CHOOSE k \in DOMAIN intervals :
            /\ \A j \in DOMAIN intervals : d(k) <= d(j)
            /\ \A j \in DOMAIN intervals : j < k => d(j) > d(k)) - 1

\* a plausible slip: the degree index wraps, the octave does not follow
DegreeNoteSameOctave(intervals, r, base_oct, d) ==
    r + base_oct * Octave + intervals[(d % Len(intervals)) + 1]

\* the note of scale degree d (0-based, may exceed the scale length)
DegreeNote(intervals, r, base_oct, d) ==
    LET n_scale == Len(intervals)
        deg_oct == d \div n_scale
        deg_idx == d % n_scale
        semit == intervals[deg_idx + 1]
    IN  r + (base_oct + deg_oct) * Octave + semit

\* a plausible slip: the power chord is returned before the base note is
\* brought into the scale
build_chord_power_first(n, r, scale_name, mode) ==
    IF mode = "" \/ mode = "none" THEN <<n>>
    ELSE IF scale_name \notin DOMAIN SCALES THEN <<n>>
    ELSE IF mode = "power" THEN <<n, n + 7>>
    ELSE LET intervals == SCALES[scale_name]
             in_scale == ((n - r) % Octave) \in Range(intervals)
             nq == IF in_scale THEN n ELSE quantize_to_scale(n, r, scale_name)
             idx == IndexOf(intervals, (nq - r) % Octave)
             base_oct == (nq - r) \div Octave
             degrees == IF mode = "triad" THEN <<idx, idx + 2, idx + 4>>
                        ELSE <<idx, idx + 2, idx + 4, idx + 6>>
         IN  IF mode \notin {"triad", "seventh"} THEN <<nq>>
             ELSE [k \in DOMAIN degrees |->
                      DegreeNote(intervals, r, base_oct, degrees[k])]

_build_diatonic_chord_notes(n, r, scale_name, mode) ==
    IF mode = "" \/ mode = "none" THEN <<n>>
    ELSE IF scale_name \notin DOMAIN SCALES THEN <<n>>
    ELSE LET intervals == SCALES[scale_name]
             in_scale == ((n - r) % Octave) \in Range(intervals)
             nq == IF in_scale THEN n ELSE quantize_to_scale(n, r, scale_name)
             base_semitone == (nq - r) % Octave
             idx == IF base_semitone \in Range(intervals)
                    THEN IndexOf(intervals, base_semitone)
                    ELSE ClosestIndex(intervals, base_semitone)
             base_oct == (nq - r) \div Octave
             degrees == IF mode = "triad" THEN <<idx, idx + 2, idx + 4>>
                        ELSE <<idx, idx + 2, idx + 4, idx + 6>>
         IN  IF mode = "power" THEN <<nq, nq + 7>>
             ELSE IF mode \notin {"triad", "seventh"} THEN <<nq>>
             ELSE [k \in DOMAIN degrees |->
                      DegreeNote(intervals, r, base_oct, degrees[k])]

----------------------------------------------------------------------------
(* midi_generator.py: function_to_midi *)

\* int(round(x)) of Python 3: to the nearest integer, a half to the even one
RoundHalfEven(f) ==
    LET fl == f[1] \div f[2]
        rem == f[1] % f[2]
    IN  IF 2 * rem < f[2] THEN fl
        ELSE IF 2 * rem > f[2] THEN fl + 1
        ELSE IF fl % 2 = 0 THEN fl ELSE fl + 1

\* the events a MIDIFile collects, in the order of the calls that add them
TrackNameEvent(t) == [type |-> "track_name", time |-> t]
TempoEvent(t, bpm) == [type |-> "tempo", time |-> t, tempo |-> bpm]
ProgramChangeEvent(t, program) ==
    [type |-> "program_change", time |-> t, program |-> program]
ControllerEvent(t, number, value) ==
    [type |-> "controller", time |-> t, controller |-> number, value |-> value]
PitchWheelEvent(t, value) == [type |-> "pitch_wheel", time |-> t, value |-> value]
NoteEvent(pitch, t, duration, vel) ==
    [type |-> "note", pitch |-> pitch, time |-> t, duration |-> duration,
     velocity |-> vel]

\* a plausible slip: the chord mode is not looked at
MicrotonalPathAnyChordMode == microtonal

\* microtonal and (not chord_mode or chord_mode == "none")
MicrotonalPath == microtonal /\ (chord_mode = "" \/ chord_mode = "none")

\* a plausible slip: the range is sent before RPN 0 is selected
BendRangeEventsDataFirst(t, semitones) ==
    <<ControllerEvent(t, 6, Max2(0, Min2(24, semitones))),
      ControllerEvent(t, 38, 0),
      ControllerEvent(t, 101, 0),
      ControllerEvent(t, 100, 0),
      ControllerEvent(t, 101, 127),
      ControllerEvent(t, 100, 127)>>

\* the six controller events that set the pitch bend range (RPN 0)
BendRangeEvents(t, semitones) ==
    <<ControllerEvent(t, 101, 0),
      ControllerEvent(t, 100, 0),
      ControllerEvent(t, 6, Max2(0, Min2(24, semitones))),
      ControllerEvent(t, 38, 0),
      ControllerEvent(t, 101, 127),
      ControllerEvent(t, 100, 127)>>

\* a plausible slip: a non-positive duration is kept
ResolvedDurationUnchecked(pattern, base, k) ==
    IF pattern # <<>> THEN pattern[(k % Len(pattern)) + 1] ELSE base

\* duration of step k (0-based): the pattern entry, cycled, or the base
\* duration; a non-positive one is replaced by max(0.1, note_duration)
ResolvedDuration(pattern, base, k) ==
    LET duration == IF pattern # <<>> THEN pattern[(k % Len(pattern)) + 1]
                    ELSE base
    IN  IF duration <= 0 THEN Max2(2, base) ELSE duration

\* a plausible slip: the offbeat is delayed by swing * 1.0 beats
StartTimeFullBeatSwing(t, k, sw, jitter) ==
    LET swung == IF sw > 0 /\ k % 2 = 1
                 THEN t + (Max2(0, Min2(10, sw)) * 20) \div 10
                 ELSE t
    IN  swung + jitter

\* a plausible slip: the swing delays the beats, not the offbeats
StartTimeSwingOnbeat(t, k, sw, jitter) ==
    LET swung == IF sw > 0 /\ k % 2 = 0
                 THEN t + (Max2(0, Min2(10, sw)) * 10) \div 10
                 ELSE t
    IN  swung + jitter

\* start time of step k: the running time, the swing delay of an offbeat,
\* and the timing jitter drawn for the step
StartTime(t, k, sw, jitter) ==
    LET swung == IF sw > 0 /\ k % 2 = 1
                 THEN t + (Max2(0, Min2(10, sw)) * 10) \div 10
                 ELSE t
    IN  swung + jitter

\* the offsets random.uniform(-h, h) can add, when h > 0
TimingJitters(h) == IF h > 0 THEN (0 - h) .. h ELSE {0}

\* a plausible slip: the humanized velocity is not clamped
StepVelocityUnclamped(base, h, offset) ==
    IF h > 0 THEN base + offset ELSE base

\* velocity of a step; offset is what random.randint(-h, h) drew
StepVelocity(base, h, offset) ==
    IF h > 0 THEN Max2(1, Min2(127, base + offset)) ELSE base

VelocityJitters(h) == IF h > 0 THEN (0 - h) .. h ELSE {0}

\* the pitch wheel value of a fractional note: the deviation from the
\* rounded note over the bend range, clamped to [-1, 1], scaled to 14 bits
Bend14(note_float, base_note, semitones) ==
    LET dev_num == note_float[1] - base_note * note_float[2]
        ratio_den == note_float[2] * semitones
        ratio == IF dev_num > ratio_den THEN Frac(1, 1)
                 ELSE IF dev_num < 0 - ratio_den THEN Frac(-1, 1)
                 ELSE Frac(dev_num, ratio_den)
        bend == RoundHalfEven(Frac(8192 * ratio[2] + 8192 * ratio[1], ratio[2]))
    IN  Max2(0, Min2(16383, bend))

\* a plausible slip: the note is added before its pitch bend
MicrotonalEventsNoteFirst(note_float, semitones, start_time, duration, vel) ==
    LET base_note == RoundHalfEven(note_float)
        bend14 == Bend14(note_float, base_note, semitones)
        note_clamped == _fit_to_range(base_note, min_note, max_note)
    IN  <<NoteEvent(note_clamped, start_time, duration, vel),
          PitchWheelEvent(start_time, bend14)>>
        \o (IF reset_bend_after_note
            THEN <<PitchWheelEvent(start_time + duration, 8192)>>
            ELSE <<>>)

\* the microtonal monophonic path of one step
MicrotonalEvents(note_float, semitones, start_time, duration, vel) ==
    LET base_note == RoundHalfEven(note_float)
        bend14 == Bend14(note_float, base_note, semitones)
        note_clamped == _fit_to_range(base_note, min_note, max_note)
    IN  <<PitchWheelEvent(start_time, bend14),
          NoteEvent(note_clamped, start_time, duration, vel)>>
        \o (IF reset_bend_after_note
            THEN <<PitchWheelEvent(start_time + duration, 8192)>>
            ELSE <<>>)

\* a plausible slip: the chord is strummed, each tone a twentieth of a beat
\* after the one before
ChordEventsStrummed(chord_notes, start_time, duration, vel) ==
    [k \in DOMAIN chord_notes |->
        NoteEvent(Max2(0, Min2(MidiMax, _fit_to_range(chord_notes[k], min_note, max_note))),
                  start_time + (k - 1), duration, vel)]

\* one note event per chord tone, fitted to the register and clamped
ChordEvents(chord_notes, start_time, duration, vel) ==
    [k \in DOMAIN chord_notes |->
        NoteEvent(Max2(0, Min2(MidiMax, _fit_to_range(chord_notes[k], min_note, max_note))),
                  start_time, duration, vel)]

\* the quantized + chords path of one step
QuantizedEvents(note_float, start_time, duration, vel) ==
    LET note_rounded == RoundHalfEven(note_float)
        note_quantized == quantize_to_scale(note_rounded, root, scale)
        chord_notes == _build_diatonic_chord_notes(note_quantized, root, scale,
                                                   chord_mode)
    IN  ChordEvents(chord_notes, start_time, duration, vel)

\* a plausible slip: the next step is counted from the displaced onset
AdvanceFromOnset(t, start_time, duration) == start_time + duration

\* current_time += duration
Advance(t, start_time, duration) == t + duration

\* lines 144-170: the setup events, the scaled samples, the clock at 0
Setup ==
    /\ pc = "start"
    /\ midi' = <<TrackNameEvent(0), TempoEvent(0, 120), ProgramChangeEvent(0, 0)>>
               \o (IF MicrotonalPath THEN BendRangeEvents(0, bend_range_semitones)
                   ELSE <<>>)
    /\ midi_notes' = _scale_values_to_range(function_values, min_note, max_note)
    /\ current_time' = 0
    /\ i' = 0
    /\ pc' = "loop"
    /\ UNCHANGED <<argVars, callVars, paramVars, bend_range_semitones, genVars,
                   guiVars>>

\* lines 172-223: one iteration of the loop over the scaled samples
Step ==
    /\ pc = "loop"
    /\ i < Len(midi_notes)
    /\ \E jitter \in TimingJitters(humanize_timing),
          offset \in VelocityJitters(humanize_velocity) :
          LET duration == ResolvedDuration(rhythm_pattern, note_duration, i)
              start_time == StartTime(current_time, i, swing, jitter)
              vel == StepVelocity(velocity, humanize_velocity, offset)
              scaled == midi_notes[i + 1]
              note_float == Frac(scaled[1] + transpose * scaled[2], scaled[2])
              semitones == IF bend_range_semitones <= 0 THEN 2
                           ELSE bend_range_semitones
          IN  /\ midi' = midi \o
                    (IF MicrotonalPath
                     THEN MicrotonalEvents(note_float, semitones, start_time,
                                           duration, vel)
                     ELSE QuantizedEvents(note_float, start_time, duration, vel))
              /\ bend_range_semitones' =
                    (IF MicrotonalPath THEN semitones ELSE bend_range_semitones)
              /\ current_time' = Advance(current_time, start_time, duration)
    /\ i' = i + 1
    /\ UNCHANGED <<argVars, callVars, paramVars, pc, midi_notes, genVars,
                   guiVars>>

\* line 225: the loop is over, the MIDIFile is returned
Finish ==
    /\ pc = "loop"
    /\ i = Len(midi_notes)
    /\ pc' = "done"
    /\ UNCHANGED <<argVars, callVars, paramVars, i, current_time, midi_notes,
                   midi, bend_range_semitones, genVars,
                   guiVars>>

Next == Setup \/ Step \/ Finish

----------------------------------------------------------------------------
(* main.py: SafeMathEvaluator *)

(* A Python value.  A number whose value is an integer is tracked ("num",  *)
(* n); any other float, inf and nan included, is not ("float").  np tells  *)
(* a numpy.float64, as np.linspace yields, from a Python int or float.     *)
Num(n, np) == [t |-> "num", n |-> n, f |-> "", np |-> np]
Float(np) == [t |-> "float", n |-> 0, f |-> "", np |-> np]
Str == [t |-> "str", n |-> 0, f |-> "", np |-> FALSE]
Func(name) == [t |-> "func", n |-> 0, f |-> name, np |-> FALSE]
None == [t |-> "None", n |-> 0, f |-> "", np |-> FALSE]

\* isinstance(v, (int, float)); numpy.float64 is a subclass of float
IsNumber(v) == v.t \in {"num", "float"}

allowed_operators == {"Add", "Sub", "Mult", "Div", "Pow", "USub"}
allowed_functions ==
    {"sin", "cos", "tan", "exp", "log", "sqrt", "abs", "floor", "ceil"}
allowed_constants == {"pi", "e"}

\* the outcome of evaluating a node: the value, or the exception raised,
\* and the functions and operators that were applied on the way
Value(v, applied) == [exc |-> "", msg |-> "", val |-> v, applied |-> applied]
Raise(exc, msg, applied) ==
    [exc |-> exc, msg |-> msg, val |-> None, applied |-> applied]

\* the expressions the evaluator is run on
FunctionStrings ==
    {"sin(x)", "x", "x*x", "x^2", "2*x - 1",
     "-x", "abs(x)", "floor(x)", "1/x", "sqrt(x)",
     "log(x)", "pi", "x/2", "", "   ",
     "import os", "x +", "foo(x)", "x + y", "sin",
     "'a'", "x < 1", "1/0", "sin()", "x(1)",
     "x % 2", "x // 2", "+x", "sin(x, k=os)", "abs(x, key=bar)"}

\* ast.parse(expr, mode='eval') on these expressions: the body of the
\* Expression node, or the SyntaxError.  Of a Call the values of the
\* keywords are kept; of a node of another type, its child expressions.
ast_parse(expr) ==
    CASE expr = "sin(x)" ->
        [error |-> "", body |-> [node |-> "Call",
            func |-> [node |-> "Name", id |-> "sin"],
            args |-> <<[node |-> "Name", id |-> "x"]>>, keywords |-> <<>>]]
      [] expr = "x" ->
        [error |-> "", body |-> [node |-> "Name", id |-> "x"]]
      [] expr = "x*x" ->
        [error |-> "", body |-> [node |-> "BinOp", op |-> "Mult",
            left |-> [node |-> "Name", id |-> "x"],
            right |-> [node |-> "Name", id |-> "x"]]]
      [] expr = "x**2" ->
        [error |-> "", body |-> [node |-> "BinOp", op |-> "Pow",
            left |-> [node |-> "Name", id |-> "x"],
            right |-> [node |-> "Constant", value |-> Num(2, FALSE)]]]
      [] expr = "2*x - 1" ->
        [error |-> "", body |-> [node |-> "BinOp", op |-> "Sub",
            left |-> [node |-> "BinOp", op |-> "Mult",
            left |-> [node |-> "Constant", value |-> Num(2, FALSE)],
            right |-> [node |-> "Name", id |-> "x"]],
            right |-> [node |-> "Constant", value |-> Num(1, FALSE)]]]
      [] expr = "-x" ->
        [error |-> "", body |-> [node |-> "UnaryOp", op |-> "USub",
            operand |-> [node |-> "Name", id |-> "x"]]]
      [] expr = "abs(x)" ->
        [error |-> "", body |-> [node |-> "Call",
            func |-> [node |-> "Name", id |-> "abs"],
            args |-> <<[node |-> "Name", id |-> "x"]>>, keywords |-> <<>>]]
      [] expr = "floor(x)" ->
        [error |-> "", body |-> [node |-> "Call",
            func |-> [node |-> "Name", id |-> "floor"],
            args |-> <<[node |-> "Name", id |-> "x"]>>, keywords |-> <<>>]]
      [] expr = "1/x" ->
        [error |-> "", body |-> [node |-> "BinOp", op |-> "Div",
            left |-> [node |-> "Constant", value |-> Num(1, FALSE)],
            right |-> [node |-> "Name", id |-> "x"]]]
      [] expr = "sqrt(x)" ->
        [error |-> "", body |-> [node |-> "Call",
            func |-> [node |-> "Name", id |-> "sqrt"],
            args |-> <<[node |-> "Name", id |-> "x"]>>, keywords |-> <<>>]]
      [] expr = "log(x)" ->
        [error |-> "", body |-> [node |-> "Call",
            func |-> [node |-> "Name", id |-> "log"],
            args |-> <<[node |-> "Name", id |-> "x"]>>, keywords |-> <<>>]]
      [] expr = "pi" ->
        [error |-> "", body |-> [node |-> "Name", id |-> "pi"]]
      [] expr = "x/2" ->
        [error |-> "", body |-> [node |-> "BinOp", op |-> "Div",
            left |-> [node |-> "Name", id |-> "x"],
            right |-> [node |-> "Constant", value |-> Num(2, FALSE)]]]
      [] expr = "foo(x)" ->
        [error |-> "", body |-> [node |-> "Call",
            func |-> [node |-> "Name", id |-> "foo"],
            args |-> <<[node |-> "Name", id |-> "x"]>>, keywords |-> <<>>]]
      [] expr = "x + y" ->
        [error |-> "", body |-> [node |-> "BinOp", op |-> "Add",
            left |-> [node |-> "Name", id |-> "x"],
            right |-> [node |-> "Name", id |-> "y"]]]
      [] expr = "sin" ->
        [error |-> "", body |-> [node |-> "Name", id |-> "sin"]]
      [] expr = "'a'" ->
        [error |-> "", body |-> [node |-> "Constant", value |-> Str]]
      [] expr = "x < 1" ->
        [error |-> "", body |-> [node |-> "Compare",
            children |-> <<[node |-> "Name", id |-> "x"],
            [node |-> "Constant", value |-> Num(1, FALSE)]>>]]
      [] expr = "1/0" ->
        [error |-> "", body |-> [node |-> "BinOp", op |-> "Div",
            left |-> [node |-> "Constant", value |-> Num(1, FALSE)],
            right |-> [node |-> "Constant", value |-> Num(0, FALSE)]]]
      [] expr = "sin()" ->
        [error |-> "", body |-> [node |-> "Call",
            func |-> [node |-> "Name", id |-> "sin"], args |-> <<>>,
            keywords |-> <<>>]]
      [] expr = "x(1)" ->
        [error |-> "", body |-> [node |-> "Call",
            func |-> [node |-> "Name", id |-> "x"],
            args |-> <<[node |-> "Constant", value |-> Num(1, FALSE)]>>,
            keywords |-> <<>>]]
      [] expr = "x % 2" ->
        [error |-> "", body |-> [node |-> "BinOp", op |-> "Mod",
            left |-> [node |-> "Name", id |-> "x"],
            right |-> [node |-> "Constant", value |-> Num(2, FALSE)]]]
      [] expr = "x // 2" ->
        [error |-> "", body |-> [node |-> "BinOp", op |-> "FloorDiv",
            left |-> [node |-> "Name", id |-> "x"],
            right |-> [node |-> "Constant", value |-> Num(2, FALSE)]]]
      [] expr = "+x" ->
        [error |-> "", body |-> [node |-> "UnaryOp", op |-> "UAdd",
            operand |-> [node |-> "Name", id |-> "x"]]]
      [] expr = "sin(x, k=os)" ->
        [error |-> "", body |-> [node |-> "Call",
            func |-> [node |-> "Name", id |-> "sin"],
            args |-> <<[node |-> "Name", id |-> "x"]>>,
            keywords |-> <<[node |-> "Name", id |-> "os"]>>]]
      [] expr = "abs(x, key=bar)" ->
        [error |-> "", body |-> [node |-> "Call",
            func |-> [node |-> "Name", id |-> "abs"],
            args |-> <<[node |-> "Name", id |-> "x"]>>,
            keywords |-> <<[node |-> "Name", id |-> "bar"]>>]]
      [] expr \in {"import os", "x +"} ->
        [error |-> "SyntaxError", body |-> [node |-> "None"]]

\* expression_str.strip()
strip(expression_str) ==
    IF expression_str = "   " THEN "" ELSE expression_str

\* expression_str.replace('^', '**')
replace_caret(expression_str) ==
    IF expression_str = "x^2" THEN "x**2" ELSE expression_str

\* a / b for b # 0 that divides a
Quotient(a, b) ==
    (IF (a < 0) = (b < 0) THEN 1 ELSE -1) * (Abs(a) \div Abs(b))

IsSquare(n) == \E r \in 0 .. n : r * r = n

\* operator.add, sub, mul, truediv, pow on two values.  Division by an
\* untracked float and powers of untracked floats are not modelled.
BinaryOperator(op, l, r) ==
    LET np == l.np \/ r.np
    IN  CASE ~ (IsNumber(l) /\ IsNumber(r)) ->
                IF \/ op = "Add" /\ l.t = "str" /\ r.t = "str"
                   \/ op = "Mult" /\ {l.t, r.t} = {"str", "num"}
                THEN Value(Str, {op})
                ELSE Raise("TypeError", "unsupported operand type(s)", {op})
          [] IsNumber(l) /\ IsNumber(r) /\ op \in {"Add", "Sub", "Mult"} ->
                IF l.t = "num" /\ r.t = "num"
                THEN Value(Num(CASE op = "Add" -> l.n + r.n
                                 [] op = "Sub" -> l.n - r.n
                                 [] op = "Mult" -> l.n * r.n, np), {op})
                ELSE Value(Float(np), {op})
          [] IsNumber(l) /\ r.t = "num" /\ op = "Div" ->
                IF r.n = 0
                THEN IF np
                     THEN Value(Float(TRUE), {op})
                     ELSE Raise("ZeroDivisionError", "division by zero", {op})
                ELSE IF l.t = "num" /\ Abs(l.n) % Abs(r.n) = 0
                     THEN Value(Num(Quotient(l.n, r.n), np), {op})
                     ELSE Value(Float(np), {op})
          [] l.t = "num" /\ r.t = "num" /\ op = "Pow" ->
                IF r.n >= 0
                THEN Value(Num(l.n ^ r.n, np), {op})
                ELSE IF l.n = 0 /\ ~ np
                     THEN Raise("ZeroDivisionError",
                                "0.0 cannot be raised to a negative power", {op})
                     ELSE Value(Float(np), {op})

\* operator.neg
UnaryOperator(op, operand) ==
    CASE operand.t = "num" -> Value(Num(0 - operand.n, operand.np), {op})
      [] operand.t = "float" -> Value(Float(operand.np), {op})
      [] OTHER -> Raise("TypeError", "bad operand type for unary -", {op})

\* math.sin, cos, tan, exp, log, sqrt, floor, ceil and the builtin abs.
\* Of an untracked float only abs is modelled.
CallFunction(name, args) ==
    CASE Len(args) \notin (IF name = "log" THEN {1, 2} ELSE {1}) ->
            Raise("TypeError", "wrong number of arguments", {name})
      [] Len(args) = 2 /\ name = "log" /\ (\E k \in 1 .. 2 : ~ IsNumber(args[k])) ->
            Raise("TypeError", "must be real number", {name})
      [] Len(args) = 2 /\ name = "log" /\ args[1].t = "num" /\ args[2].t = "num" ->
            IF args[1].n <= 0 \/ args[2].n <= 0
            THEN Raise("ValueError", "math domain error", {name})
            ELSE IF args[2].n = 1
                 THEN Raise("ZeroDivisionError", "float division by zero", {name})
                 ELSE IF args[1].n = 1
                      THEN Value(Num(0, FALSE), {name})
                      ELSE Value(Float(FALSE), {name})
      [] Len(args) = 1 /\ ~ IsNumber(args[1]) ->
            Raise("TypeError", "must be real number", {name})
      [] Len(args) = 1 /\ args[1].t = "float" /\ name = "abs" ->
            Value(Float(args[1].np), {name})
      [] Len(args) = 1 /\ args[1].t = "num" ->
            LET n == args[1].n
            IN  CASE name \in {"sin", "tan"} ->
                        IF n = 0 THEN Value(Num(0, FALSE), {name})
                                 ELSE Value(Float(FALSE), {name})
                  [] name \in {"cos", "exp"} ->
                        IF n = 0 THEN Value(Num(1, FALSE), {name})
                                 ELSE Value(Float(FALSE), {name})
                  [] name = "log" ->
                        IF n <= 0
                        THEN Raise("ValueError", "math domain error", {name})
                        ELSE IF n = 1 THEN Value(Num(0, FALSE), {name})
                                      ELSE Value(Float(FALSE), {name})
                  [] name = "sqrt" ->
                        IF n < 0
                        THEN Raise("ValueError", "math domain error", {name})
                        ELSE IF IsSquare(n)
                             THEN Value(Num(CHOOSE r \in 0 .. n : r * r = n, FALSE),
                                        {name})
                             ELSE Value(Float(FALSE), {name})
                  [] name = "abs" -> Value(Num(Abs(n), args[1].np), {name})
                  [] name \in {"floor", "ceil"} -> Value(Num(n, FALSE), {name})

RECURSIVE _eval_node(_, _)
RECURSIVE _eval_args(_, _)

\* [self._eval_node(arg, x_value) for arg in node.args]: the values, or the
\* first exception
_eval_args(args, x_value) ==
    IF args = <<>>
    THEN [exc |-> "", msg |-> "", vals |-> <<>>, applied |-> {}]
    ELSE LET head == _eval_node(Head(args), x_value)
         IN  IF head.exc # ""
             THEN [exc |-> head.exc, msg |-> head.msg, vals |-> <<>>,
                   applied |-> head.applied]
             ELSE LET rest == _eval_args(Tail(args), x_value)
                  IN  [exc |-> rest.exc, msg |-> rest.msg,
                       vals |-> IF rest.exc = "" THEN <<head.val>> \o rest.vals
                                                 ELSE <<>>,
                       applied |-> head.applied \cup rest.applied]

\* the keywords of a Call are not read; the operator is looked up before
\* the operands are evaluated
_eval_node(node, x_value) ==
    CASE node.node = "Constant" -> Value(node.value, {})
      [] node.node = "Name" ->
            IF node.id = "x" THEN Value(x_value, {})
            ELSE IF node.id \in allowed_constants THEN Value(Float(FALSE), {})
            ELSE IF node.id \in allowed_functions THEN Value(Func(node.id), {})
            ELSE Raise("ValueError", "Name not allowed", {})
      [] node.node = "Call" ->
            LET func == _eval_node(node.func, x_value)
                args == _eval_args(node.args, x_value)
                seen == func.applied \cup args.applied
            IN  IF func.exc # "" THEN func
                ELSE IF args.exc # ""
                THEN Raise(args.exc, args.msg, seen)
                ELSE IF func.val.t # "func"
                THEN Raise("TypeError", "object is not callable", seen)
                ELSE LET called == CallFunction(func.val.f, args.vals)
                     IN  [called EXCEPT !.applied = @ \cup seen]
      [] node.node = "BinOp" ->
            IF node.op \notin allowed_operators
            THEN Raise("KeyError", node.op, {})
            ELSE LET left == _eval_node(node.left, x_value)
                     right == _eval_node(node.right, x_value)
                 IN  IF left.exc # "" THEN left
                     ELSE IF right.exc # ""
                     THEN [right EXCEPT !.applied = @ \cup left.applied]
                     ELSE LET applied == BinaryOperator(node.op, left.val, right.val)
                          IN  [applied EXCEPT
                                 !.applied = @ \cup left.applied \cup right.applied]
      [] node.node = "UnaryOp" ->
            IF node.op \notin allowed_operators
            THEN Raise("KeyError", node.op, {})
            ELSE LET operand == _eval_node(node.operand, x_value)
                 IN  IF operand.exc # "" THEN operand
                     ELSE LET applied == UnaryOperator(node.op, operand.val)
                          IN  [applied EXCEPT !.applied = @ \cup operand.applied]
      [] OTHER -> Raise("TypeError", "Unsupported node type", {})

\* except (SyntaxError, ValueError, TypeError, ZeroDivisionError)
CaughtExceptions == {"SyntaxError", "ValueError", "TypeError", "ZeroDivisionError"}

\* what a call of eval_expression does: the value it returns, the exception
\* that leaves it (raised, "" if none), the error type and message it
\* prints, and the functions and operators it applied
Outcome(out) ==
    IF out.exc = ""
    THEN [returned |-> out.val, raised |-> "", error_type |-> "",
          error_msg |-> "", applied |-> out.applied]
    ELSE IF out.exc \in CaughtExceptions
    THEN [returned |-> None, raised |-> "", error_type |-> out.exc,
          error_msg |-> out.msg, applied |-> out.applied]
    ELSE [returned |-> None, raised |-> out.exc, error_type |-> "",
          error_msg |-> "", applied |-> out.applied]

eval_expression(expression_str, x_value) ==
    IF strip(expression_str) = ""
    THEN Outcome(Raise("ValueError", "Empty expression", {}))
    ELSE LET expr == replace_caret(expression_str)
             parsed == ast_parse(expr)
         IN  IF parsed.error # ""
             THEN Outcome(Raise(parsed.error, "invalid syntax", {}))
             ELSE LET result == _eval_node(parsed.body, x_value)
                  IN  IF result.exc = "" /\ ~ IsNumber(result.val)
                      THEN Outcome(Raise("ValueError",
                                         "Expression must evaluate to a number",
                                         result.applied))
                      ELSE Outcome(result)

----------------------------------------------------------------------------
(* main.py: generate_midi_from_function_string and the caller that writes  *)
(* the file                                                                *)

NoException == [type |-> "", msg |-> ""]

\* np.linspace(x_range[0], x_range[1], num_notes), on grids of integers
linspace(range, n) ==
    [k \in 1 .. n |->
        Num(IF n = 1 THEN range[1]
            ELSE range[1] + ((k - 1) * (range[2] - range[1])) \div (n - 1),
            TRUE)]

IntegerGrid(range, n) ==
    IF n = 1 THEN TRUE
    ELSE \A k \in 1 .. n : ((k - 1) * (range[2] - range[1])) % (n - 1) = 0

\* a plausible slip: only the first sample is looked at
only_first_is_none(ys) == ys # <<>> /\ ys[1] = None

\* any(v is None for v in y_vals)
any_is_none(ys) == \E k \in DOMAIN ys : ys[k] = None

\* line 170: the next sample is evaluated; an exception that leaves
\* eval_expression leaves generate_midi_from_function_string
EvalSample ==
    /\ pc = "sample"
    /\ Len(y_vals) < num_notes
    /\ LET out == eval_expression(function_str,
                                  linspace(x_range, num_notes)[Len(y_vals) + 1])
       IN  IF out.raised # ""
           THEN /\ raised' = [type |-> out.raised, msg |-> ""]
                /\ pc' = "failed"
                /\ UNCHANGED y_vals
           ELSE /\ y_vals' = Append(y_vals, out.returned)
                /\ UNCHANGED <<raised, pc>>
    /\ UNCHANGED <<argVars, callVars, paramVars, i, current_time, midi_notes,
                   midi, bend_range_semitones, function_str, x_val, x_range,
                   num_notes, output_file, guiVars>>

\* lines 171-173: ValueError if a sample is None, else the synthesizer is
\* called with the samples
CheckSamples ==
    /\ pc = "sample"
    /\ Len(y_vals) = num_notes
    /\ IF any_is_none(y_vals)
       THEN /\ raised' = [type |-> "ValueError",
                          msg |-> "Function evaluation failed"]
            /\ pc' = "failed"
            /\ UNCHANGED function_values
       ELSE /\ function_values' = [k \in DOMAIN y_vals |-> y_vals[k].n]
            /\ pc' = "start"
            /\ UNCHANGED raised
    /\ UNCHANGED <<note, root, scale, chord_mode, min_note, max_note, callVars,
                   paramVars, i, current_time, midi_notes, midi,
                   bend_range_semitones, function_str, x_val, x_range,
                   num_notes, y_vals, output_file, guiVars>>

\* lines 313-315: the returned MIDIFile is written to the output file
WriteFile ==
    /\ pc = "done"
    /\ output_file' = midi
    /\ pc' = "saved"
    /\ UNCHANGED <<argVars, callVars, paramVars, i, current_time, midi_notes,
                   midi, bend_range_semitones, function_str, x_val, x_range,
                   num_notes, y_vals, raised, guiVars>>

----------------------------------------------------------------------------
(* GUI.py: MelodyGeneratorGUI.  The entries of the window are the          *)
(* variables function_str (function_entry), x_range (x_start, x_end) and   *)
(* num_notes (notes_entry); the other entries keep their valid defaults    *)
(* and auto-save is off.                                                   *)

\* self.temp_midi_path: None, or the path melody_<t>.mid
NoPath == <<>>
TempPath(t) == <<t>>

\* what the user can type into the entries
GuiFunctions == {"", "   ", "sin(x)", "x*x", "log(x)", "sqrt(x)", "x % 2", "foo(x)"}
GuiRanges == {<<0, 7>>, <<-7, 0>>, <<1, 8>>, <<0, 0>>}
GuiNotes == {8, 3}

\* the handler that ran last and temp_midi_path when it started
Started(name) == [name |-> name, path |-> temp_midi_path]

\* the message of the first exception of lines 526-538, "" if there is none:
\* _get_x_range, _get_num_notes, _evaluate_function_samples
GenerateError(function) ==
    IF x_range[2] <= x_range[1]
    THEN "End X must be greater than Start X"
    ELSE IF num_notes < 8 \/ num_notes > 128
    THEN "Number of notes must be between 8 and 128"
    ELSE LET out(k) == eval_expression(function, linspace(x_range, num_notes)[k])
         IN  IF \E k \in 1 .. num_notes : out(k).raised # ""
             THEN out(CHOOSE k \in 1 .. num_notes : out(k).raised # "").raised
             ELSE IF \E k \in 1 .. num_notes : out(k).returned = None
             THEN "Function evaluation failed"
             ELSE ""

\* the user edits the function entry
TypeFunction ==
    /\ pc = "window"
    /\ function_str' \in GuiFunctions \ {function_str}
    /\ UNCHANGED <<argVars, callVars, paramVars, loopVars, x_val, x_range,
                   num_notes, y_vals, raised, output_file, guiVars>>

\* the user edits the X range and the number of notes
EditInputs ==
    /\ pc = "window"
    /\ x_range' \in GuiRanges
    /\ num_notes' \in GuiNotes
    /\ <<x_range', num_notes'>> # <<x_range, num_notes>>
    /\ UNCHANGED <<argVars, callVars, paramVars, loopVars, function_str, x_val,
                   y_vals, raised, output_file, guiVars>>

\* time passes
Tick ==
    /\ pc = "window"
    /\ clock < MaxClock
    /\ clock' = clock + 1
    /\ UNCHANGED <<argVars, callVars, paramVars, loopVars, genVars,
                   temp_midi_path, controls_enabled, status, busy, files,
                   last_action, callback_raised>>

\* the music stops by itself
PlaybackEnds ==
    /\ pc = "window"
    /\ busy
    /\ busy' = FALSE
    /\ UNCHANGED <<argVars, callVars, paramVars, loopVars, genVars,
                   temp_midi_path, controls_enabled, status, clock, files,
                   last_action, callback_raised>>

\* lines 516-588, the Generate button, always enabled; disk_ok tells whether
\* the temporary file can be written
generate_midi ==
    /\ pc = "window"
    /\ last_action' = Started("generate_midi")
    /\ callback_raised' = ""
    /\ LET function == strip(function_str)
       IN  IF function = ""
           THEN /\ temp_midi_path' = NoPath
                /\ status' = "Please enter a function"
                /\ UNCHANGED <<controls_enabled, files>>
           ELSE IF GenerateError(function) # ""
           THEN /\ temp_midi_path' = NoPath
                /\ status' = "Error"
                /\ controls_enabled' = FALSE
                /\ UNCHANGED files
           ELSE \E disk_ok \in BOOLEAN :
                    IF disk_ok
                    THEN /\ temp_midi_path' = TempPath(clock)
                         /\ files' = files \cup {TempPath(clock)}
                         /\ controls_enabled' = TRUE
                         /\ status' = "MIDI generated successfully"
                    ELSE /\ temp_midi_path' = NoPath
                         /\ status' = "Error"
                         /\ controls_enabled' = FALSE
                         /\ UNCHANGED files
    /\ UNCHANGED <<argVars, callVars, paramVars, loopVars, genVars, busy, clock>>

\* lines 627-643, the Play button; os.path.exists(None) raises TypeError,
\* which the handler catches; mixer_ok tells whether the mixer loads the file
play_midi ==
    /\ pc = "window"
    /\ controls_enabled
    /\ last_action' = Started("play_midi")
    /\ callback_raised' = ""
    /\ IF temp_midi_path = NoPath
       THEN status' = "Error" /\ UNCHANGED busy
       ELSE IF temp_midi_path \notin files
       THEN status' = "MIDI file not found" /\ UNCHANGED busy
       ELSE \E mixer_ok \in BOOLEAN :
                IF mixer_ok THEN status' = "Playing" /\ busy' = TRUE
                ELSE status' = "Error" /\ UNCHANGED busy
    /\ UNCHANGED <<argVars, callVars, paramVars, loopVars, genVars,
                   temp_midi_path, controls_enabled, clock, files>>

\* lines 645-651, the Stop button
stop_midi ==
    /\ pc = "window"
    /\ controls_enabled
    /\ last_action' = Started("stop_midi")
    /\ callback_raised' = ""
    /\ busy' = FALSE
    /\ status' = "Stopped"
    /\ UNCHANGED <<argVars, callVars, paramVars, loopVars, genVars,
                   temp_midi_path, controls_enabled, clock, files>>

\* lines 653-682, the Save button; os.path.exists(None) raises TypeError,
\* which leaves the handler; chosen tells whether the dialog gave a path
save_midi ==
    /\ pc = "window"
    /\ controls_enabled
    /\ last_action' = Started("save_midi")
    /\ IF temp_midi_path = NoPath
       THEN callback_raised' = "TypeError" /\ UNCHANGED status
       ELSE /\ callback_raised' = ""
            /\ IF temp_midi_path \notin files
               THEN status' = "Generate a MIDI first"
               ELSE \E chosen \in BOOLEAN :
                        IF chosen THEN status' = "Saved" ELSE UNCHANGED status
    /\ UNCHANGED <<argVars, callVars, paramVars, loopVars, genVars,
                   temp_midi_path, controls_enabled, busy, clock, files>>

----------------------------------------------------------------------------
(* The functions applied to arguments drawn from the bounded sets.  Each   *)
(* specification draws the arguments of one function and calls it; the     *)
(* variables of the other functions keep their defaults.                   *)

DefaultParams ==
    /\ velocity = 100 /\ note_duration = 10 /\ transpose = 0
    /\ microtonal = FALSE /\ bend_range_semitones = 2
    /\ reset_bend_after_note = TRUE /\ rhythm_pattern = <<>> /\ swing = 0
    /\ humanize_timing = 0 /\ humanize_velocity = 0

NotRunning ==
    /\ pc = "idle" /\ i = 0 /\ current_time = 0
    /\ midi_notes = <<>> /\ midi = <<>>

\* no generation request
NoRequest ==
    /\ function_str = "" /\ x_val = Num(0, FALSE)
    /\ x_range = <<0, 0>> /\ num_notes = 0
    /\ y_vals = <<>> /\ raised = NoException /\ output_file = <<>>

\* no window
NoWindow ==
    /\ temp_midi_path = NoPath /\ controls_enabled = FALSE /\ status = ""
    /\ busy = FALSE /\ clock = 0 /\ files = {}
    /\ last_action = [name |-> "", path |-> NoPath] /\ callback_raised = ""

\* the call returns value v
Return(v) ==
    /\ ret' = Append(ret, v)
    /\ UNCHANGED <<argVars, paramVars, loopVars, genVars, guiVars>>

(* quantize_to_scale(note, root, scale), then again on its own result *)
InitQuantize ==
    /\ note \in Notes /\ root \in Roots
    /\ scale \in ScaleNames \cup UnknownScaleNames
    /\ chord_mode = "none" /\ min_note = 36 /\ max_note = 96
    /\ function_values = <<>>
    /\ ret = <<>> /\ DefaultParams /\ NotRunning /\ NoRequest /\ NoWindow

Quantize == ret = <<>> /\ Return(quantize_to_scale(note, root, scale))

Requantize == Len(ret) = 1 /\ Return(quantize_to_scale(ret[1], root, scale))

NextQuantize == Quantize \/ Requantize

SpecQuantize == InitQuantize /\ [][NextQuantize]_vars

(* _fit_to_range(note, min_note, max_note) *)
InitFit ==
    /\ note \in Notes /\ min_note \in Registers /\ max_note \in Registers
    /\ root = MiddleC /\ scale = "chromatic" /\ chord_mode = "none"
    /\ function_values = <<>>
    /\ ret = <<>> /\ DefaultParams /\ NotRunning /\ NoRequest /\ NoWindow

FitToRange == ret = <<>> /\ Return(_fit_to_range(note, min_note, max_note))

NextFit == FitToRange

SpecFit == InitFit /\ [][NextFit]_vars

(* _scale_values_to_range(function_values, min_note, max_note) *)
InitMap ==
    /\ function_values \in SampleSeqs
    /\ min_note \in MapRegisters /\ max_note \in MapRegisters
    /\ note = MiddleC /\ root = MiddleC /\ scale = "chromatic"
    /\ chord_mode = "none"
    /\ ret = <<>> /\ DefaultParams /\ NotRunning /\ NoRequest /\ NoWindow

ScaleValues ==
    ret = <<>> /\ Return(_scale_values_to_range(function_values, min_note, max_note))

NextMap == ScaleValues

SpecMap == InitMap /\ [][NextMap]_vars

(* _build_diatonic_chord_notes(note, root, scale, chord_mode) *)
InitChord ==
    /\ note \in Notes /\ root \in Roots
    /\ scale \in ScaleNames \cup UnknownScaleNames
    /\ chord_mode \in ChordModes \cup {""}
    /\ min_note = 36 /\ max_note = 96 /\ function_values = <<>>
    /\ ret = <<>> /\ DefaultParams /\ NotRunning /\ NoRequest /\ NoWindow

BuildChord ==
    ret = <<>> /\ Return(_build_diatonic_chord_notes(note, root, scale, chord_mode))

NextChord == BuildChord

SpecChord == InitChord /\ [][NextChord]_vars

(* eval_expression(function_str, x_val), x_val a Python number or a     *)
(* numpy.float64                                                           *)
InitEval ==
    /\ function_str \in FunctionStrings
    /\ x_val \in {Num(n, np) : n \in (0 - MaxX) .. MaxX, np \in BOOLEAN}
    /\ x_range = <<0, 0>> /\ num_notes = 0
    /\ y_vals = <<>> /\ raised = NoException /\ output_file = <<>>
    /\ NoWindow
    /\ note = MiddleC /\ root = MiddleC /\ scale = "chromatic"
    /\ chord_mode = "none" /\ min_note = 36 /\ max_note = 96
    /\ function_values = <<>>
    /\ ret = <<>> /\ DefaultParams /\ NotRunning

EvalExpression == ret = <<>> /\ Return(eval_expression(function_str, x_val))

NextEval == EvalExpression

SpecEval == InitEval /\ [][NextEval]_vars

----------------------------------------------------------------------------
(* Properties of the scale engine (SpecQuantize) *)

InScale(p, r, s) == ((p - r) % Octave) \in Range(SCALES[s])

\* C1: quantization is idempotent: quantizing the result of a quantization
\* again, with the same root and scale name (known or unknown), returns it
\* unchanged.
C1_QuantizeIdempotent == Len(ret) = 2 => ret[2] = ret[1]

\* the note was moved by the first call, and the second call has returned
C1_Witness ==
    /\ Len(ret) = 2 /\ scale = "blues" /\ ret[1] # note /\ note < root

\* C2: for a known scale the result is in the scale and no in-scale pitch,
\* in any octave (the root of the next octave up included), is strictly
\* closer to the note than the result.
C2_NearestInScale ==
    (Len(ret) >= 1 /\ scale \in ScaleNames) =>
        /\ InScale(ret[1], root, scale)
        /\ \A p \in (note - Octave) .. (note + Octave) :
              InScale(p, root, scale) => Abs(p - note) >= Abs(ret[1] - note)

\* C3: with a scale name that is not a key of SCALES the note is returned
\* unchanged, whatever the note and the root.
C3_UnknownScaleUnchanged ==
    (Len(ret) >= 1 /\ scale \notin ScaleNames) =>
        \A k \in DOMAIN ret : ret[k] = note

\* an unknown name, and a note that no diatonic scale on this root holds
C3_Witness ==
    /\ Len(ret) = 1 /\ scale = "whole_tone"
    /\ (note - root) % Octave = 1 /\ ret[1] = note

----------------------------------------------------------------------------
(* Properties of the range functions (SpecFit, SpecMap) *)

\* C4: with min_note <= max_note the fitted note lies in
\* [min_note, max_note], for a note below, inside or above the range.
C4_FitWithinRange ==
    (Len(ret) = 1 /\ min_note <= max_note) =>
        (min_note <= ret[1] /\ ret[1] <= max_note)

\* a note more than an octave below a range narrower than an octave that
\* holds no pitch of its class: the clamp decides the result
C4_Witness ==
    /\ Len(ret) = 1 /\ min_note < max_note /\ max_note - min_note < 11
    /\ note < min_note - Octave /\ ret[1] = min_note
    /\ (ret[1] - note) % Octave # 0

\* C5, as stated: for every range with min_note < max_note the fitted note
\* has the pitch class of the note.
C5_FitPreservesPitchClass ==
    (Len(ret) = 1 /\ min_note < max_note) => (ret[1] - note) % Octave = 0

\* C5, amended: for min_note < max_note the fitted note has the pitch class
\* of the note whenever the range holds a pitch of that class, which is so
\* whenever max_note - min_note >= 11.
C5_FitPreservesPitchClassWhenPossible ==
    (Len(ret) = 1 /\ min_note < max_note) =>
        /\ (\E p \in min_note .. max_note : (p - note) % Octave = 0)
              => (ret[1] - note) % Octave = 0
        /\ max_note - min_note >= 11 => (ret[1] - note) % Octave = 0

\* a note two octaves above a range of exactly twelve pitches
C5_Witness ==
    /\ Len(ret) = 1 /\ max_note - min_note = 11 /\ note > max_note + Octave
    /\ ret[1] = note - 2 * Octave

\* C6: for a non-empty sample sequence and min_note < max_note the output
\* has the length of the input, every value lies in [min_note, max_note],
\* and when all samples are equal every value is exactly the midpoint
\* (min_note + max_note) / 2.
C6_MapWithinRange ==
    (Len(ret) = 1 /\ function_values # <<>> /\ min_note < max_note) =>
        /\ Len(ret[1]) = Len(function_values)
        /\ \A k \in DOMAIN ret[1] :
              /\ ret[1][k][2] > 0
              /\ FracLeq(Frac(min_note, 1), ret[1][k])
              /\ FracLeq(ret[1][k], Frac(max_note, 1))
        /\ (\A j, k \in DOMAIN function_values :
                function_values[j] = function_values[k])
              => \A k \in DOMAIN ret[1] :
                    FracEq(ret[1][k], Frac(min_note + max_note, 2))

\* three samples, neither all equal nor all at the extremes, mapped onto a
\* range with an odd sum; the middle value is strictly inside the range
C6_Witness ==
    /\ Len(ret) = 1 /\ Len(function_values) = 3 /\ min_note < max_note
    /\ function_values[1] < function_values[2]
    /\ function_values[2] < function_values[3]
    /\ (min_note + max_note) % 2 = 1
    /\ ~ FracLeq(ret[1][2], Frac(min_note, 1))
    /\ ~ FracLeq(Frac(max_note, 1), ret[1][2])

----------------------------------------------------------------------------
(* Properties of the chord builder (SpecChord) *)

\* C7, as stated: in power mode the chord is always the two notes
\* [q, q + 7], q the note quantized to the scale, for every note, root and
\* scale name, a name that is not in the table included.
C7_PowerAlwaysTwoNotes ==
    (Len(ret) = 1 /\ chord_mode = "power") =>
        LET q == quantize_to_scale(note, root, scale)
        IN  ret[1] = <<q, q + 7>>

\* C7, amended: in power mode with a known scale the chord is the two notes
\* [q, q + 7], q the note quantized to the scale (the note itself when it is
\* in the scale), whether or not q + 7 is in the scale; with a scale name
\* that is not in the table the chord is the single note [note].
C7_PowerTwoNotesKnownScale ==
    (Len(ret) = 1 /\ chord_mode = "power") =>
        IF scale \in ScaleNames
        THEN /\ Len(ret[1]) = 2
             /\ ret[1][2] = ret[1][1] + 7
             /\ InScale(ret[1][1], root, scale)
             /\ ret[1][1] = quantize_to_scale(note, root, scale)
             /\ InScale(note, root, scale) => ret[1][1] = note
        ELSE ret[1] = <<note>>

\* a power chord on a note outside the scale whose fifth is outside the
\* scale as well
C7_Witness ==
    /\ Len(ret) = 1 /\ chord_mode = "power" /\ scale = "blues"
    /\ ~ InScale(note, root, scale)
    /\ Len(ret[1]) = 2 /\ ~ InScale(ret[1][2], root, scale)

\* C8: for a known scale the chord has 3 notes in triad mode and 4 in
\* seventh mode, at the scale degrees idx, idx + 2, idx + 4 (and idx + 6),
\* idx the index of the in-scale base note, each degree wrapped modulo the
\* scale length with one more octave per wrap; the first note is the
\* in-scale base note and every note is in the scale.
C8_DiatonicChord ==
    (Len(ret) = 1 /\ scale \in ScaleNames /\ chord_mode \in {"triad", "seventh"}) =>
        LET chord == ret[1]
            intervals == SCALES[scale]
            n_scale == Len(intervals)
            base == chord[1]
            idx == CHOOSE j \in 0 .. (n_scale - 1) :
                       intervals[j + 1] = (base - root) % Octave
            base_oct == (base - root) \div Octave
        IN  /\ Len(chord) = (IF chord_mode = "triad" THEN 3 ELSE 4)
            /\ InScale(base, root, scale)
            /\ Abs(base - note) < Octave
            /\ InScale(note, root, scale) => base = note
            /\ \A k \in DOMAIN chord :
                  LET d == idx + 2 * (k - 1)
                  IN  /\ InScale(chord[k], root, scale)
                      /\ chord[k] = root + (base_oct + d \div n_scale) * Octave
                                       + intervals[(d % n_scale) + 1]

\* a seventh chord in a five-note scale, from a note outside the scale: the
\* last degree wraps past the octave
C8_Witness ==
    /\ Len(ret) = 1 /\ scale = "pentatonic_minor" /\ chord_mode = "seventh"
    /\ ~ InScale(note, root, scale)
    /\ Len(ret[1]) = 4 /\ ret[1][4] > ret[1][1] + Octave

----------------------------------------------------------------------------
(* function_to_midi run on configurations drawn from the bounded sets *)

\* sample sequences: a constant function, a rising one, an oscillating one
Wave(shape, n) ==
    [k \in 1 .. n |->
        CASE shape = "flat" -> 0
          [] shape = "ramp" -> k
          [] OTHER -> (k * k) % 5]

RhythmPatterns == {<<>>, <<10, 10, 20>>, <<20>>, <<10, 0>>, <<5, 15>>}

(* timing: rhythm pattern, base duration, swing and timing jitter vary *)
InitCadence ==
    /\ function_values \in {Wave("ramp", n) : n \in 1 .. MaxSteps}
    /\ rhythm_pattern \in RhythmPatterns
    /\ note_duration \in {0, 2, 10}
    /\ swing \in {0, 5, 10}
    /\ humanize_timing \in {0, 1}
    /\ microtonal \in BOOLEAN
    /\ note = MiddleC /\ root = MiddleC /\ scale = "chromatic"
    /\ chord_mode = "none" /\ min_note = 36 /\ max_note = 96
    /\ velocity = 100 /\ transpose = 0 /\ bend_range_semitones = 2
    /\ reset_bend_after_note = TRUE /\ humanize_velocity = 0
    /\ ret = <<>>
    /\ pc = "start" /\ i = 0 /\ current_time = 0
    /\ midi_notes = <<>> /\ midi = <<>>
    /\ NoRequest /\ NoWindow

SpecCadence == InitCadence /\ [][Next]_vars

(* harmony: scale, root, chord mode and path vary over up to MaxSamples    *)
(* samples; both jitters vary over up to MaxJitterSteps samples            *)
Init ==
    /\ \/ /\ function_values \in
                {Wave(shape, n) : shape \in {"flat", "ramp", "wave"},
                                  n \in 1 .. MaxSamples}
          /\ humanize_timing = 0 /\ humanize_velocity = 0
          /\ scale \in ScaleNames \cup {"whole_tone"}
          /\ root \in {MiddleC, MiddleC + 5}
       \/ /\ function_values \in
                {Wave(shape, n) : shape \in {"flat", "ramp", "wave"},
                                  n \in 1 .. MaxJitterSteps}
          /\ humanize_timing \in {0, 1} /\ humanize_velocity \in {0, 1}
          /\ humanize_timing + humanize_velocity > 0
          /\ scale \in {"major", "blues"}
          /\ root = MiddleC
    /\ chord_mode \in ChordModes
    /\ microtonal \in BOOLEAN
    /\ reset_bend_after_note \in BOOLEAN
    /\ note = MiddleC /\ min_note = 36 /\ max_note = 96
    /\ velocity = 100 /\ note_duration = 10 /\ transpose = 0
    /\ bend_range_semitones = 2 /\ rhythm_pattern = <<>> /\ swing = 0
    /\ ret = <<>>
    /\ pc = "start" /\ i = 0 /\ current_time = 0
    /\ midi_notes = <<>> /\ midi = <<>>
    /\ NoRequest /\ NoWindow

Spec == Init /\ [][Next]_vars

(* register: min_note, max_note, transpose and the bend range vary, over  *)
(* valid configurations (0 <= min_note < max_note <= 127, transpose in    *)
(* -24 .. 24), without jitter                                             *)
PitchRegisters ==
    {<<36, 96>>, <<0, 127>>, <<60, 71>>, <<60, 64>>, <<0, 5>>, <<122, 127>>,
     <<126, 127>>}

InitPitch ==
    /\ function_values \in
          {Wave(shape, n) : shape \in {"flat", "ramp", "wave"},
                            n \in 1 .. MaxPitchSteps}
    /\ \E reg \in PitchRegisters : min_note = reg[1] /\ max_note = reg[2]
    /\ transpose \in {-24, -5, 0, 24}
    /\ \/ /\ microtonal \in BOOLEAN
          /\ chord_mode \in ChordModes
          /\ scale \in ScaleNames \cup {"whole_tone"}
          /\ root \in {MiddleC, MiddleC + 5}
          /\ bend_range_semitones = 2
          /\ reset_bend_after_note = TRUE
       \/ /\ microtonal = TRUE
          /\ chord_mode = "none"
          /\ scale = "chromatic"
          /\ root = MiddleC
          /\ bend_range_semitones \in {0, 1, 24}
          /\ reset_bend_after_note \in BOOLEAN
    /\ note = MiddleC
    /\ velocity = 100 /\ note_duration = 10 /\ rhythm_pattern = <<>>
    /\ swing = 0 /\ humanize_timing = 0 /\ humanize_velocity = 0
    /\ ret = <<>>
    /\ pc = "start" /\ i = 0 /\ current_time = 0
    /\ midi_notes = <<>> /\ midi = <<>>
    /\ NoRequest /\ NoWindow

SpecPitch == InitPitch /\ [][Next]_vars

(* velocity: the base velocity and the velocity jitter vary *)
InitVelocity ==
    /\ function_values \in
          {Wave(shape, n) : shape \in {"flat", "ramp"},
                            n \in 1 .. MaxVelocitySteps}
    /\ velocity \in {0, 1, 2, 64, 126, 127}
    /\ humanize_velocity \in {0, 1, 2}
    /\ microtonal \in BOOLEAN
    /\ chord_mode \in {"none", "triad"}
    /\ note = MiddleC /\ root = MiddleC /\ scale = "major"
    /\ min_note = 36 /\ max_note = 96
    /\ note_duration = 10 /\ transpose = 0 /\ bend_range_semitones = 2
    /\ reset_bend_after_note = TRUE /\ rhythm_pattern = <<>> /\ swing = 0
    /\ humanize_timing = 0
    /\ ret = <<>>
    /\ pc = "start" /\ i = 0 /\ current_time = 0
    /\ midi_notes = <<>> /\ midi = <<>>
    /\ NoRequest /\ NoWindow

SpecVelocity == InitVelocity /\ [][Next]_vars

(* generate_midi_from_function_string: the expression, the interval and    *)
(* the number of samples vary; the samples that have a value are tracked   *)
(* numbers                                                                 *)
XRanges == {<<-1, 1>>, <<0, 2>>, <<1, 3>>, <<1, -1>>, <<0, 0>>, <<-2, 2>>}

InitGenerate ==
    /\ function_str \in FunctionStrings
    /\ x_range \in XRanges
    /\ num_notes \in 1 .. MaxNotes
    /\ IntegerGrid(x_range, num_notes)
    /\ \A k \in 1 .. num_notes :
          eval_expression(function_str,
                          linspace(x_range, num_notes)[k]).returned.t # "float"
    /\ x_val = Num(0, FALSE)
    /\ y_vals = <<>> /\ raised = NoException /\ output_file = <<>>
    /\ NoWindow
    /\ note = MiddleC /\ root = MiddleC /\ scale \in {"chromatic", "major"}
    /\ chord_mode = "none" /\ min_note = 36 /\ max_note = 96
    /\ function_values = <<>>
    /\ ret = <<>> /\ DefaultParams
    /\ pc = "sample" /\ i = 0 /\ current_time = 0
    /\ midi_notes = <<>> /\ midi = <<>>

NextGenerate ==
    EvalSample \/ CheckSamples \/ Setup \/ Step \/ Finish \/ WriteFile

SpecGenerate == InitGenerate /\ [][NextGenerate]_vars

(* the window after __init__ and create_widgets, no file and the Play,    *)
(* Stop and Save buttons disabled, once the user has set the X range and  *)
(* the number of notes                                                    *)
InitGUI ==
    /\ function_str = "sin(x)"
    /\ x_range \in GuiRanges \ {<<0, 0>>}
    /\ num_notes = 8
    /\ temp_midi_path = NoPath /\ controls_enabled = FALSE /\ status = "Ready"
    /\ busy = FALSE /\ clock = 0 /\ files = {}
    /\ last_action = [name |-> "", path |-> NoPath] /\ callback_raised = ""
    /\ x_val = Num(0, FALSE)
    /\ y_vals = <<>> /\ raised = NoException /\ output_file = <<>>
    /\ note = MiddleC /\ root = MiddleC /\ scale = "chromatic"
    /\ chord_mode = "none" /\ min_note = 36 /\ max_note = 96
    /\ function_values = <<>>
    /\ ret = <<>> /\ DefaultParams
    /\ pc = "window" /\ i = 0 /\ current_time = 0
    /\ midi_notes = <<>> /\ midi = <<>>

NextGUI ==
    \/ TypeFunction \/ EditInputs \/ Tick \/ PlaybackEnds
    \/ generate_midi \/ play_midi \/ stop_midi \/ save_midi

SpecGUI == InitGUI /\ [][NextGUI]_vars

----------------------------------------------------------------------------
(* Properties of the scheduler (SpecCadence, Spec) *)

IsNote(e) == e.type = "note"
NoteEvents == SelectSeq(midi, IsNote)

\* the sum of the resolved durations of steps 0 .. k - 1
RECURSIVE SumDurations(_)
SumDurations(k) ==
    IF k = 0 THEN 0
    ELSE SumDurations(k - 1) + ResolvedDuration(rhythm_pattern, note_duration, k - 1)

\* C9: before step i is processed the running time is the sum of the
\* resolved durations of the steps before it, whatever the swing and the
\* jitter drawn; with the pattern [0.5, 0.5, 1.0] the five steps of five
\* samples are counted from 0, 0.5, 1.0, 2.0, 2.5.
C9_Cadence ==
    pc \in {"loop", "done"} =>
        /\ current_time = SumDurations(i)
        /\ (rhythm_pattern = <<10, 10, 20>> /\ i < 5) =>
              current_time = <<0, 10, 20, 40, 50>>[i + 1]

\* the fifth step of five is about to run; the fourth was an offbeat
\* delayed by the swing and by the jitter drawn for it
C9_Witness ==
    /\ pc = "loop" /\ i = 4 /\ Len(function_values) = 5
    /\ rhythm_pattern = <<10, 10, 20>> /\ swing = 10 /\ humanize_timing = 1
    /\ current_time = 50
    /\ \E k \in DOMAIN midi : IsNote(midi[k]) /\ midi[k].time = 40 + 10 + 1

ChordSize(mode) ==
    CASE mode = "power" -> 2
      [] mode = "triad" -> 3
      [] mode = "seventh" -> 4
      [] OTHER -> 1

\* C10: on the quantized/chord path with a known scale, the i steps made so
\* far have emitted i * k note events (k = 1, 2, 3, 4 for none, power, triad,
\* seventh), in i consecutive groups of k that share start time, duration
\* and velocity; when the function returns, i is the number of samples.
C10_ChordGroups ==
    (pc \in {"loop", "done"} /\ ~ MicrotonalPath /\ scale \in ScaleNames) =>
        LET k == ChordSize(chord_mode)
            notes == NoteEvents
        IN  /\ Len(notes) = i * k
            /\ pc = "done" => i = Len(function_values)
            /\ \A s \in 0 .. (i - 1) : \A m \in 1 .. k :
                  /\ notes[s * k + m].time = notes[s * k + 1].time
                  /\ notes[s * k + m].duration = notes[s * k + 1].duration
                  /\ notes[s * k + m].velocity = notes[s * k + 1].velocity

\* eight samples in triad mode have given 24 note events, in groups of
\* three tones of different pitch
C10_Witness ==
    /\ pc = "done" /\ chord_mode = "triad" /\ ~ microtonal
    /\ scale = "major" /\ Len(function_values) = 8
    /\ Len(NoteEvents) = 24
    /\ NoteEvents[22].pitch # NoteEvents[23].pitch
    /\ NoteEvents[23].pitch # NoteEvents[24].pitch

\* C11: in a valid configuration every note event has a pitch in
\* [min_note, max_note], hence in 0 .. 127, on both paths.
C11_PitchWithinRegister ==
    (pc \in {"loop", "done"}
       /\ 0 <= min_note /\ min_note < max_note /\ max_note <= MidiMax) =>
        \A k \in DOMAIN NoteEvents :
            /\ min_note <= NoteEvents[k].pitch
            /\ NoteEvents[k].pitch <= max_note

\* a seventh chord transposed above a register of two pitches: tones were
\* clamped to both ends of it
C11_Witness ==
    /\ pc = "done" /\ chord_mode = "seventh" /\ ~ microtonal
    /\ min_note = 126 /\ transpose = 24
    /\ \E j, k \in DOMAIN NoteEvents :
          NoteEvents[j].pitch = 126 /\ NoteEvents[k].pitch = 127

\* positive base duration and rhythm pattern entries
ValidDurations ==
    /\ note_duration > 0
    /\ \A k \in DOMAIN rhythm_pattern : rhythm_pattern[k] > 0

\* C12: in a valid configuration every note event has start_time >= 0,
\* humanized timing (every jitter in [-humanize_timing, humanize_timing])
\* and swing included.
C12_StartTimeNonNegative ==
    ValidDurations => \A k \in DOMAIN NoteEvents : NoteEvents[k].time >= 0

\* the swing delay of an offbeat: min(1, swing) * 0.5 beats
SwingDelay == IF swing > 0 THEN (Max2(0, Min2(10, swing)) * 10) \div 10 ELSE 0

\* C13, as stated: without timing jitter the start times never decrease
\* from step to step, for every swing in [0, 1] and every valid base
\* duration or rhythm pattern.
C13_StartTimesMonotone ==
    (humanize_timing = 0 /\ ValidDurations /\ chord_mode = "none") =>
        \A k \in DOMAIN NoteEvents :
            k > 1 => NoteEvents[k - 1].time <= NoteEvents[k].time

\* C13, amended: without timing jitter the start times never decrease from
\* step to step when every offbeat (odd) step lasts at least the swing delay
\* min(1, swing) * 0.5, in particular when swing = 0; the step after a
\* shorter offbeat starts before that offbeat.
C13_StartTimesMonotoneLongOffbeats ==
    (humanize_timing = 0 /\ ValidDurations /\ chord_mode = "none") =>
        \A k \in DOMAIN NoteEvents :
            k > 1 =>
                IF (k - 2) % 2 = 1 /\ NoteEvents[k - 1].duration < SwingDelay
                THEN NoteEvents[k - 1].time > NoteEvents[k].time
                ELSE NoteEvents[k - 1].time <= NoteEvents[k].time

\* five steps with full swing, every step as long as the swing delay
C13_Witness ==
    /\ pc = "done" /\ humanize_timing = 0 /\ swing = 10
    /\ rhythm_pattern = <<>> /\ note_duration = 10
    /\ Len(NoteEvents) = 5
    /\ NoteEvents[2].time = NoteEvents[3].time

\* C18: a call with min_note >= max_note, or with a non-positive base
\* duration or rhythm pattern entry, is rejected: no note event is emitted.
C18_InvalidConfigurationRejected ==
    (min_note >= max_note \/ ~ ValidDurations) => NoteEvents = <<>>

HasEvent(type) == \E k \in DOMAIN midi : midi[k].type = type

\* C19: the controller events of the bend range and the pitch bend events
\* are emitted if and only if microtonal is set and chord_mode is "none";
\* otherwise every step takes the quantized/chord path: it adds the chord's
\* note events only, and without chords their pitches are in the scale.
C19_BendOnlyOnMicrotonalPath ==
    pc \in {"loop", "done"} =>
        /\ HasEvent("controller") <=> (microtonal /\ chord_mode = "none")
        /\ i >= 1 =>
              (HasEvent("pitch_wheel") <=> (microtonal /\ chord_mode = "none"))
        /\ ~ (microtonal /\ chord_mode = "none") =>
              /\ Len(midi) = 3 + Len(NoteEvents)
              /\ Len(NoteEvents) =
                    i * (IF scale \in ScaleNames THEN ChordSize(chord_mode) ELSE 1)
              /\ (scale \in ScaleNames /\ chord_mode = "none") =>
                    \A k \in DOMAIN NoteEvents :
                        InScale(NoteEvents[k].pitch, root, scale)

\* microtonal is set, but triads are built: eight steps, no bend
C19_Witness ==
    /\ pc = "done" /\ microtonal /\ chord_mode = "triad" /\ scale = "minor"
    /\ Len(function_values) = 8 /\ Len(NoteEvents) = 24
    /\ ~ HasEvent("pitch_wheel") /\ ~ HasEvent("controller")

\* the events of the steps, after the three setup events and the six
\* controller events of the microtonal path
StepEvents == SubSeq(midi, 10, Len(midi))

IsIntegral(f) == f[1] % f[2] = 0

\* C20: on the microtonal path each step adds, in this order, a pitch bend
\* at the start time with a value in [0, 16383] (8192 when the pitch value is
\* an integer), one note at that start time with the pitch
\* fit_to_range(round(note_float)), and, if and only if reset_bend_after_note
\* is set, a pitch bend of 8192 at start time + duration; i steps give i
\* notes and i or 2i pitch bends.
C20_MicrotonalStep ==
    (pc \in {"loop", "done"} /\ MicrotonalPath) =>
        LET g == IF reset_bend_after_note THEN 3 ELSE 2
            ev == StepEvents
        IN  /\ Len(ev) = i * g
            /\ Len(NoteEvents) = i
            /\ pc = "done" => i = Len(function_values)
            /\ \A s \in 0 .. (i - 1) :
                  LET bend == ev[s * g + 1]
                      nt == ev[s * g + 2]
                      scaled == midi_notes[s + 1]
                      note_float == Frac(scaled[1] + transpose * scaled[2], scaled[2])
                  IN  /\ bend.type = "pitch_wheel"
                      /\ 0 <= bend.value /\ bend.value <= 16383
                      /\ IsIntegral(note_float) => bend.value = 8192
                      /\ nt.type = "note"
                      /\ nt.time = bend.time
                      /\ nt.time = SumDurations(s)
                      /\ nt.pitch = _fit_to_range(RoundHalfEven(note_float),
                                                  min_note, max_note)
                      /\ reset_bend_after_note =>
                            ev[s * g + 3] = PitchWheelEvent(nt.time + nt.duration, 8192)

\* three steps with reset: six pitch bends, one of them off centre
C20_Witness ==
    /\ pc = "done" /\ MicrotonalPath /\ reset_bend_after_note
    /\ Len(function_values) = 3 /\ Len(StepEvents) = 9
    /\ \E k \in DOMAIN StepEvents :
          StepEvents[k].type = "pitch_wheel" /\ StepEvents[k].value > 8192

----------------------------------------------------------------------------
(* Properties of the evaluator (SpecEval) and of generation (SpecGenerate) *)

RECURSIVE ClosedSet(_)
\* every node of the expression is a number, x, an allowed constant or
\* function name, a call of an allowed function on positional arguments, or
\* an allowed operator on such nodes
ClosedSet(node) ==
    CASE node.node = "Constant" -> IsNumber(node.value)
      [] node.node = "Name" ->
            node.id \in {"x"} \cup allowed_constants \cup allowed_functions
      [] node.node = "Call" ->
            /\ node.func.node = "Name" /\ node.func.id \in allowed_functions
            /\ \A k \in DOMAIN node.args : ClosedSet(node.args[k])
            /\ node.keywords = <<>>
      [] node.node = "BinOp" ->
            /\ node.op \in allowed_operators \ {"USub"}
            /\ ClosedSet(node.left) /\ ClosedSet(node.right)
      [] node.node = "UnaryOp" ->
            node.op = "USub" /\ ClosedSet(node.operand)
      [] OTHER -> FALSE

\* the expression parses and all its nodes are of the closed set
InClosedSet(expression_str) ==
    /\ strip(expression_str) # ""
    /\ ast_parse(replace_caret(expression_str)).error = ""
    /\ ClosedSet(ast_parse(replace_caret(expression_str)).body)

\* C14: the evaluator applies no function and no operator outside the
\* allowed sets, and an expression with any identifier, operator or syntax
\* node outside the closed set never yields a number.
C14_ClosedSetOnly ==
    \A k \in DOMAIN ret :
        /\ ret[k].applied \subseteq allowed_functions \cup allowed_operators
        /\ IsNumber(ret[k].returned) => InClosedSet(function_str)

\* the failure a printed error stands for
FailureCause(out) ==
    CASE out.error_msg = "Empty expression" -> "EmptyExpression"
      [] out.error_type = "SyntaxError" -> "SyntaxError"
      [] out.error_type = "ZeroDivisionError" -> "DivisionByZero"
      [] out.error_msg = "Expression must evaluate to a number" -> "TypeMismatch"
      [] out.error_msg \in {"Name not allowed", "Unsupported node type"} ->
            "UnsupportedConstruct"
      [] OTHER -> out.error_type

\* C15: the value eval_expression returns on a failure names the cause:
\* EmptyExpression, SyntaxError, DivisionByZero, TypeMismatch or
\* UnsupportedConstruct.
C15_FailureIdentifiesCause ==
    \A k \in DOMAIN ret :
        ret[k].error_type # "" => ret[k].returned.f = FailureCause(ret[k])

RECURSIVE UsesOtherOperator(_)
\* some BinOp or UnaryOp of the expression has an operator outside the
\* allowed set
UsesOtherOperator(node) ==
    CASE node.node = "BinOp" ->
            \/ node.op \notin allowed_operators
            \/ UsesOtherOperator(node.left) \/ UsesOtherOperator(node.right)
      [] node.node = "UnaryOp" ->
            node.op \notin allowed_operators \/ UsesOtherOperator(node.operand)
      [] node.node = "Call" ->
            \E k \in DOMAIN node.args : UsesOtherOperator(node.args[k])
      [] OTHER -> FALSE

\* C16: for an expression with an operator outside the allowed set no
\* exception leaves eval_expression, and the request ends with the
\* ValueError "Function evaluation failed", as for a disallowed name.
C16_OtherOperatorFailsLikeName ==
    (/\ strip(function_str) # ""
     /\ ast_parse(replace_caret(function_str)).error = ""
     /\ UsesOtherOperator(ast_parse(replace_caret(function_str)).body)) =>
        /\ pc \in {"sample", "failed"}
        /\ pc = "failed" =>
              raised = [type |-> "ValueError", msg |-> "Function evaluation failed"]

\* the outcome of sample k of the request
SampleOutcome(k) ==
    eval_expression(function_str, linspace(x_range, num_notes)[k])

----------------------------------------------------------------------------
(* Properties of the scheduler, continued (SpecPitch, SpecCadence,         *)
(* SpecVelocity, Spec)                                                     *)

\* C21: on the microtonal path the bend range is set once, at time 0, by
\* the controllers 101 = 0, 100 = 0, 6 = bend range, 38 = 0, 101 = 127,
\* 100 = 127 in this order, after the track name, tempo and program change
\* and before every pitch bend and note.
C21_BendRangeSetOnce ==
    (pc \in {"loop", "done"} /\ MicrotonalPath) =>
        /\ Len(midi) >= 9
        /\ <<midi[1].type, midi[2].type, midi[3].type>> =
              <<"track_name", "tempo", "program_change">>
        /\ \A k \in 4 .. 9 : midi[k].type = "controller" /\ midi[k].time = 0
        /\ [k \in 1 .. 6 |-> midi[k + 3].controller] = <<101, 100, 6, 38, 101, 100>>
        /\ midi[4].value = 0 /\ midi[5].value = 0 /\ midi[7].value = 0
        /\ midi[8].value = 127 /\ midi[9].value = 127
        /\ midi[6].value \in 0 .. 24
        /\ midi[6].value >= 1 => midi[6].value = bend_range_semitones
        /\ \A k \in 10 .. Len(midi) : midi[k].type \in {"pitch_wheel", "note"}

\* a bend range of 24 semitones, three steps
C21_Witness ==
    /\ pc = "done" /\ MicrotonalPath /\ bend_range_semitones = 24
    /\ Len(function_values) = 3 /\ Len(midi) > 9
    /\ midi[6] = ControllerEvent(0, 6, 24)

\* the duration the code is to resolve for step k (0-based)
ExpectedDuration(k) ==
    LET configured == IF rhythm_pattern # <<>>
                      THEN rhythm_pattern[(k % Len(rhythm_pattern)) + 1]
                      ELSE note_duration
    IN  IF configured > 0 THEN configured
        ELSE IF note_duration > 2 THEN note_duration ELSE 2

RECURSIVE ClockBefore(_)
\* the sum of the durations of the notes before the k-th note
ClockBefore(k) ==
    IF k <= 1 THEN 0 ELSE ClockBefore(k - 1) + NoteEvents[k - 1].duration

\* C22: step k lasts rhythm_pattern[k mod len] if a pattern is given and
\* the base duration otherwise, a non-positive duration being replaced by
\* the base duration floored at 0.1; every note lasts more than 0 and the
\* running time grows at every step.
C22_DurationResolved ==
    (pc \in {"loop", "done"} /\ chord_mode = "none") =>
        /\ Len(NoteEvents) = i
        /\ \A k \in DOMAIN NoteEvents :
              /\ NoteEvents[k].duration = ExpectedDuration(k - 1)
              /\ NoteEvents[k].duration > 0
              /\ ClockBefore(k) < ClockBefore(k + 1)
        /\ current_time = ClockBefore(i + 1)

\* the pattern [0.5, 0] with base duration 0: the offbeats last 0.1
C22_Witness ==
    /\ pc = "done" /\ rhythm_pattern = <<10, 0>> /\ note_duration = 0
    /\ Len(NoteEvents) = 5
    /\ [k \in 1 .. 5 |-> NoteEvents[k].duration] = <<10, 2, 10, 2, 10>>
    /\ current_time = 34

\* C23: without timing jitter step k starts at the running time when k is
\* even or swing = 0, and min(1, swing) * 0.5 later when k is odd and
\* swing > 0; the delay of a step is not carried into a later step.
C23_SwingOnOffbeatsOnly ==
    (pc \in {"loop", "done"} /\ humanize_timing = 0 /\ chord_mode = "none") =>
        \A k \in DOMAIN NoteEvents :
            NoteEvents[k].time =
                ClockBefore(k) +
                (IF (k - 1) % 2 = 1 /\ swing > 0
                 THEN IF swing >= 10 THEN 10 ELSE swing
                 ELSE 0)

\* swing 0.5 on five steps of half a beat: the offbeats are a quarter late
C23_Witness ==
    /\ pc = "done" /\ humanize_timing = 0 /\ swing = 5
    /\ rhythm_pattern = <<>> /\ note_duration = 10
    /\ [k \in 1 .. Len(NoteEvents) |-> NoteEvents[k].time] = <<0, 15, 20, 35, 40>>

\* C24: without velocity jitter every note has the base velocity; with it,
\* the base velocity plus an integer in [-humanize_velocity,
\* humanize_velocity], clamped to [1, 127]; for a base velocity in 0 .. 127
\* every velocity is in 0 .. 127.
C24_VelocityClamped ==
    \A k \in DOMAIN NoteEvents :
        LET vel == NoteEvents[k].velocity
        IN  /\ humanize_velocity = 0 => vel = velocity
            /\ humanize_velocity > 0 =>
                  \E offset \in (0 - humanize_velocity) .. humanize_velocity :
                      vel = (IF velocity + offset < 1 THEN 1
                             ELSE IF velocity + offset > 127 THEN 127
                             ELSE velocity + offset)
            /\ velocity \in 0 .. 127 => vel \in 0 .. 127

\* base velocity 127 with jitter 2: one note was clamped, one was not
C24_Witness ==
    /\ pc = "done" /\ velocity = 127 /\ humanize_velocity = 2
    /\ chord_mode = "none"
    /\ \E j, k \in DOMAIN NoteEvents :
          NoteEvents[j].velocity = 127 /\ NoteEvents[k].velocity = 125

\* C25: on the microtonal path with reset_bend_after_note no pitch bend of
\* another step, onset or reset, lies strictly inside the interval
\* (start, start + duration) of a note, for every swing, timing jitter and
\* rhythm pattern.
C25_NoForeignBendWhileSounding ==
    (pc \in {"loop", "done"} /\ MicrotonalPath /\ reset_bend_after_note
       /\ ValidDurations) =>
        \A s, u \in 0 .. (i - 1) :
            s # u =>
                LET nt == StepEvents[3 * s + 2]
                    inside(b) == nt.time < b.time /\ b.time < nt.time + nt.duration
                IN  /\ ~ inside(StepEvents[3 * u + 1])
                    /\ ~ inside(StepEvents[3 * u + 3])

\* C27: for a known scale, every chord mode and a register of at least an
\* octave, the notes of one step have pairwise distinct pitches.
C27_ChordTonesDistinct ==
    (pc \in {"loop", "done"} /\ ~ MicrotonalPath /\ scale \in ScaleNames
       /\ max_note - min_note >= Octave) =>
        LET size == ChordSize(chord_mode)
        IN  \A s \in 0 .. (i - 1) :
                \A j, k \in 1 .. size :
                    j # k =>
                        NoteEvents[s * size + j].pitch # NoteEvents[s * size + k].pitch

\* C28: on the quantized/chord path with a known scale, chord mode "none",
\* "triad" or "seventh" and a register of at least 11 semitones inside
\* 0 .. 127, every pitch is in the scale: (pitch - root) mod 12 is in
\* SCALES[scale], for every transpose and root.
C28_PitchesInScale ==
    (pc \in {"loop", "done"} /\ ~ MicrotonalPath /\ scale \in ScaleNames
       /\ chord_mode \in {"none", "triad", "seventh"}
       /\ 0 <= min_note /\ max_note <= MidiMax /\ max_note - min_note >= 11) =>
        \A k \in DOMAIN NoteEvents : InScale(NoteEvents[k].pitch, root, scale)

\* seventh chords in F dorian, a register of exactly 11 semitones, the
\* samples transposed two octaves up: every tone was wrapped into 60 .. 71
C28_Witness ==
    /\ pc = "done" /\ ~ microtonal /\ chord_mode = "seventh"
    /\ scale = "dorian" /\ root = MiddleC + 5
    /\ min_note = 60 /\ max_note = 71 /\ transpose = 24
    /\ Len(function_values) = 3 /\ Len(NoteEvents) = 12

----------------------------------------------------------------------------
(* Properties of the window (SpecGUI) *)

\* C26: in every state the window reaches by generate, play, stop and save
\* the Play, Stop and Save buttons are enabled only if temp_midi_path is
\* not None, and no play or save is started from an enabled button while
\* temp_midi_path is None.
C26_ControlsNeedFile ==
    /\ controls_enabled => temp_midi_path # NoPath
    /\ last_action.name \in {"play_midi", "save_midi"} =>
          last_action.path # NoPath

====
